---- MODULE Spec2Model ----
(***************************************************************************)
(* Model of the employee browser's query engine (backend/server.js): the   *)
(* GET /api/records handler and the three stages it runs, applyFilters,    *)
(* applySort and paginate, over the employees of data.json.                *)
(*                                                                         *)
(* JavaScript values are tagged records.  A JavaScript string is a         *)
(* sequence of one-character strings, so that toLowerCase, includes,       *)
(* startsWith, endsWith, String(), Number(), parseInt and localeCompare    *)
(* are computed rather than assumed.                                       *)
(***************************************************************************)
EXTENDS Integers, Sequences, FiniteSets

VARIABLES
    dataFile,    \* data.json as readData() parses it: [employees |-> <<...>>]
    pc,          \* "listening" between requests, "responded" after one
    req,         \* parsedUrl.query of the request being served
    employees,   \* the handler's array `employees` once the stages have run
    filtered,    \* `result` after applyFilters (server.js:122)
    sorted,      \* `result` after applySort (server.js:123)
    response,    \* paginatedResult, the body of the response
    pagerQuery,  \* paging: the query whose pages are requested in turn
    nextPage,    \* paging: the index of the next page to request
    acc,         \* paging: the rows of the pages served so far, in order
    pagerDone,   \* paging: a page was served with hasMore false
    presets,     \* data.json's presets array
    presetOp,    \* the last preset request the server handled
    ui,          \* App: the component's state (useState), as last set
    view,        \* App: the state the last render, and so its closures, saw
    scrollView,  \* App: the render whose handleScroll is the scroll listener
    dirty,       \* App: state was set since the last render
    inflight,    \* App: the fetchRecords calls awaiting their response
    requested,   \* App: every fetchRecords call made so far, in order
    presetCalls, \* App: the preset requests awaiting their response
    changes,     \* App: how many clicks and keystrokes the user made
    scrolls,     \* App: how many scroll events the table received
    effects      \* App: the effects of the last render that are still to run

\* The preset store and the component App (frontend/src/App.tsx).
presetVars == <<presets, presetOp>>

appVars ==
    <<ui, view, scrollView, dirty, inflight, requested, presetCalls, changes,
      scrolls, effects>>

vars == <<dataFile, pc, req, employees, filtered, sorted, response,
          pagerQuery, nextPage, acc, pagerDone, presets, presetOp,
          ui, view, scrollView, dirty, inflight, requested, presetCalls, changes,
          scrolls, effects>>

(***************************************************************************)
(* Bounds of the model.                                                    *)
(***************************************************************************)
MaxRecords == 3
MaxFilters == 2
MaxPage == 3
MaxLimit == 3

(***************************************************************************)
(* Characters and strings.                                                 *)
(***************************************************************************)
Digits == <<"0", "1", "2", "3", "4", "5", "6", "7", "8", "9">>

LowerCase == <<"a", "b", "c", "d", "e", "f", "g", "h", "i", "j", "k", "l", "m",
               "n", "o", "p", "q", "r", "s", "t", "u", "v", "w", "x", "y", "z">>

UpperCase == <<"A", "B", "C", "D", "E", "F", "G", "H", "I", "J", "K", "L", "M",
               "N", "O", "P", "Q", "R", "S", "T", "U", "V", "W", "X", "Y", "Z">>

IsIn(c, chars) == \E i \in 1..Len(chars) : chars[i] = c

IndexIn(c, chars) == CHOOSE i \in 1..Len(chars) : chars[i] = c

IsDigit(c) == IsIn(c, Digits)

DigitValue(c) == IndexIn(c, Digits) - 1

\* String.prototype.toLowerCase, on the letters A-Z.
toLowerCase(s) ==
    [i \in 1..Len(s) |->
        IF IsIn(s[i], UpperCase) THEN LowerCase[IndexIn(s[i], UpperCase)] ELSE s[i]]

\* String.prototype.includes / startsWith / endsWith.
includes(s, t) ==
    \E i \in 0..(Len(s) - Len(t)) : SubSeq(s, i + 1, i + Len(t)) = t

startsWith(s, t) ==
    /\ Len(t) <= Len(s)
    /\ SubSeq(s, 1, Len(t)) = t

endsWith(s, t) ==
    /\ Len(t) <= Len(s)
    /\ SubSeq(s, Len(s) - Len(t) + 1, Len(s)) = t

(***************************************************************************)
(* Values.  type is what typeof answers, except for null, whose typeof is  *)
(* "object" and which is tagged "null" here.  num is a number: nan marks   *)
(* NaN, otherwise n is its (integer) value.                                *)
(***************************************************************************)
Num(n) == [nan |-> FALSE, n |-> n]

NaN == [nan |-> TRUE, n |-> 0]

Str(s) == [type |-> "string", s |-> s, num |-> NaN]

NumV(n) == [type |-> "number", s |-> <<>>, num |-> Num(n)]

Undefined == [type |-> "undefined", s |-> <<>>, num |-> NaN]

Null == [type |-> "null", s |-> <<>>, num |-> NaN]

\* A built-in function; s is the text String() gives for it.
Func(text) == [type |-> "function", s |-> text, num |-> NaN]

RECURSIVE DigitsOf(_)
DigitsOf(n) ==
    IF n < 10 THEN <<Digits[n + 1]>>
    ELSE DigitsOf(n \div 10) \o <<Digits[(n % 10) + 1]>>

\* Number.prototype.toString of an integer.
NumberToString(n) == IF n < 0 THEN <<"-">> \o DigitsOf(-n) ELSE DigitsOf(n)

RECURSIVE DigitsValue(_)
DigitsValue(s) ==
    IF s = <<>> THEN 0
    ELSE 10 * DigitsValue(SubSeq(s, 1, Len(s) - 1)) + DigitValue(s[Len(s)])

AllDigits(s) == \A i \in 1..Len(s) : IsDigit(s[i])

\* The longest prefix of s made of digits.
RECURSIVE DigitPrefix(_)
DigitPrefix(s) ==
    IF s = <<>> \/ ~IsDigit(s[1]) THEN <<>>
    ELSE <<s[1]>> \o DigitPrefix(Tail(s))

IsSign(c) == c = "-" \/ c = "+"

\* s without its sign, and the number of magnitude n that s's sign makes.
Unsigned(s) == IF s /= <<>> /\ IsSign(s[1]) THEN Tail(s) ELSE s

Signed(s, n) == IF s[1] = "-" THEN Num(-n) ELSE Num(n)

\* ToNumber of a string (StringToNumber), for the literals the model uses:
\* the empty string is 0, an optionally signed run of decimal digits is its
\* value, and every other string is NaN.
StringToNumber(s) ==
    IF s = <<>> THEN Num(0)
    ELSE IF Unsigned(s) = <<>> \/ ~AllDigits(Unsigned(s)) THEN NaN
    ELSE Signed(s, DigitsValue(Unsigned(s)))

\* parseInt(string): an optional sign and the longest prefix of digits;
\* NaN when there is no digit.  An absent parameter (undefined) is the
\* string "undefined" to parseInt, which has no digit either.
parseInt(s) ==
    IF DigitPrefix(Unsigned(s)) = <<>> THEN NaN
    ELSE Signed(s, DigitsValue(DigitPrefix(Unsigned(s))))

\* String(value).
ToString(v) ==
    CASE v.type = "string" -> v.s
      [] v.type = "number" ->
            IF v.num.nan THEN <<"N", "a", "N">> ELSE NumberToString(v.num.n)
      [] v.type = "undefined" -> <<"u", "n", "d", "e", "f", "i", "n", "e", "d">>
      [] v.type = "null" -> <<"n", "u", "l", "l">>
      [] OTHER -> v.s

\* Number(value).
ToNumber(v) ==
    CASE v.type = "string" -> StringToNumber(v.s)
      [] v.type = "number" -> v.num
      [] v.type = "null" -> Num(0)
      [] OTHER -> NaN

\* a - b, a < b, ... on numbers: NaN poisons the arithmetic and makes every
\* comparison false.
Sub(a, b) == IF a.nan \/ b.nan THEN NaN ELSE Num(a.n - b.n)

Neg(a) == IF a.nan THEN NaN ELSE Num(-a.n)

Gt(a, b) == ~a.nan /\ ~b.nan /\ a.n > b.n

Lt(a, b) == ~a.nan /\ ~b.nan /\ a.n < b.n

Ge(a, b) == ~a.nan /\ ~b.nan /\ a.n >= b.n

Le(a, b) == ~a.nan /\ ~b.nan /\ a.n <= b.n

(***************************************************************************)
(* Records.  An employee is an object parsed from JSON: its own fields     *)
(* (three of the Employee fields of frontend/src/types.ts: a number id, a  *)
(* string and a number) over Object.prototype.                             *)
(***************************************************************************)
Employee(id, firstName, age) ==
    [id |-> NumV(id), firstName |-> Str(firstName), age |-> NumV(age)]

\* String(Object), the text of a built-in function.
ObjectFunctionText ==
    <<"f", "u", "n", "c", "t", "i", "o", "n", " ", "O", "b", "j", "e", "c", "t",
      "(", ")", " ", "{", " ", "[", "n", "a", "t", "i", "v", "e", " ",
      "c", "o", "d", "e", "]", " ", "}">>

\* What every object inherits; only `constructor` is modelled.
ObjectPrototype == [constructor |-> Func(ObjectFunctionText)]

\* record[field]: the own field, else the inherited one, else undefined.
Get(record, field) ==
    IF field \in DOMAIN record THEN record[field]
    ELSE IF field \in DOMAIN ObjectPrototype THEN ObjectPrototype[field]
    ELSE Undefined

(***************************************************************************)
(* applyFilters (server.js:26-60).                                         *)
(***************************************************************************)
\* The switch on filter.operator (lines 36-55).  sv and sf are
\* String(value).toLowerCase() and String(filterValue).toLowerCase(), nv and
\* nf are Number(value) and Number(filterValue).
EvalOperator(operator, sv, sf, nv, nf) ==
    CASE operator = "equals" -> sv = sf
      [] operator = "contains" -> includes(sv, sf)
      [] operator = ">" -> Gt(nv, nf)
      [] operator = "<" -> Lt(nv, nf)
      [] operator = ">=" -> Ge(nv, nf)
      [] operator = "<=" -> Le(nv, nf)
      [] operator = "startsWith" -> startsWith(sv, sf)
      [] operator = "endsWith" -> endsWith(sv, sf)
      [] OTHER -> FALSE

\* Lines 34-55, on the value looked up and the filter's value.
EvalValue(value, filterValue, operator) ==
    IF value.type = "undefined" \/ value.type = "null" THEN FALSE
    ELSE EvalOperator(operator,
                      toLowerCase(ToString(value)), toLowerCase(ToString(filterValue)),
                      ToNumber(value), ToNumber(filterValue))

\* The callback of filters.map: one condition on one record.
EvalFilter(record, filter) ==
    EvalValue(Get(record, filter.field), Str(filter.value), filter.operator)

\* Combine with some and every exchanged.
CombineExchanged(results, logic) ==
    IF logic = "OR" THEN \A i \in 1..Len(results) : results[i]
    ELSE \E i \in 1..Len(results) : results[i]

\* Line 58: results.some under 'OR', results.every under anything else.
Combine(results, logic) ==
    IF logic = "OR" THEN \E i \in 1..Len(results) : results[i]
    ELSE \A i \in 1..Len(results) : results[i]

\* The callback of data.filter.
KeepRecord(record, filters, logic) ==
    Combine([i \in 1..Len(filters) |-> EvalFilter(record, filters[i])], logic)

\* applyFilters without the early return of line 27.
applyFiltersNoEarlyReturn(data, filters, logic) ==
    LET Keep(record) == KeepRecord(record, filters, logic)
    IN  [same |-> FALSE, result |-> SelectSeq(data, Keep)]

\* same: the array returned is the argument itself (line 27), not a new one.
applyFilters(data, filters, logic) ==
    IF Len(filters) = 0 THEN [same |-> TRUE, result |-> data]
    ELSE LET Keep(record) == KeepRecord(record, filters, logic)
         IN  [same |-> FALSE, result |-> SelectSeq(data, Keep)]

(***************************************************************************)
(* String.prototype.localeCompare under the default (root) collation, on   *)
(* digits and letters: strings are compared by their letters regardless    *)
(* of case, digits before letters and a prefix before its extensions, and  *)
(* only when that is equal by case, lower case first.                      *)
(***************************************************************************)
PrimaryWeight(c) ==
    IF IsDigit(c) THEN IndexIn(c, Digits)
    ELSE IF IsIn(c, LowerCase) THEN Len(Digits) + IndexIn(c, LowerCase)
    ELSE IF IsIn(c, UpperCase) THEN Len(Digits) + IndexIn(c, UpperCase)
    ELSE 0

TertiaryWeight(c) == IF IsIn(c, UpperCase) THEN 1 ELSE 0

RECURSIVE CompareWeights(_, _)
CompareWeights(x, y) ==
    IF x = <<>> /\ y = <<>> THEN 0
    ELSE IF x = <<>> THEN -1
    ELSE IF y = <<>> THEN 1
    ELSE IF x[1] < y[1] THEN -1
    ELSE IF x[1] > y[1] THEN 1
    ELSE CompareWeights(Tail(x), Tail(y))

FirstDifference(primary, tertiary) == IF primary /= 0 THEN primary ELSE tertiary

localeCompare(a, b) ==
    FirstDifference(CompareWeights([i \in 1..Len(a) |-> PrimaryWeight(a[i])],
                                   [i \in 1..Len(b) |-> PrimaryWeight(b[i])]),
                    CompareWeights([i \in 1..Len(a) |-> TertiaryWeight(a[i])],
                                   [i \in 1..Len(b) |-> TertiaryWeight(b[i])]))

(***************************************************************************)
(* applySort (server.js:62-78).                                            *)
(***************************************************************************)
\* Lines 69-74: the comparison of the two values.
Comparison(aVal, bVal) ==
    IF aVal.type = "string" THEN Num(localeCompare(aVal.s, ToString(bVal)))
    ELSE Sub(ToNumber(aVal), ToNumber(bVal))

\* Line 76 without the negation.
DirectedNotNegated(comparison, sortOrder) == comparison

\* Line 76.
Directed(comparison, sortOrder) ==
    IF sortOrder = "desc" THEN Neg(comparison) ELSE comparison

\* The comparator handed to sort (lines 65-77).
comparefn(a, b, sortField, sortOrder) ==
    Directed(Comparison(Get(a, sortField), Get(b, sortField)), sortOrder)

\* What Array.prototype.sort makes of the comparator's answer: NaN is 0.
NaNToZero(v) == IF v.nan THEN 0 ELSE v.n

SortCompare(a, b, sortField, sortOrder) ==
    NaNToZero(comparefn(a, b, sortField, sortOrder))

Reverse(s) == [i \in 1..Len(s) |-> s[Len(s) + 1 - i]]

\* The length of the run that starts the array: idx is the next position to
\* look at, desc whether the run is strictly descending.
RunEnds(order, desc) == (desc /\ order >= 0) \/ (~desc /\ order < 0)

RECURSIVE RunLength(_, _, _, _, _)
RunLength(arr, idx, desc, sortField, sortOrder) ==
    IF idx > Len(arr) THEN idx - 1
    ELSE IF RunEnds(SortCompare(arr[idx], arr[idx - 1], sortField, sortOrder), desc)
    THEN idx - 1
    ELSE RunLength(arr, idx + 1, desc, sortField, sortOrder)

\* Where the pivot goes among the first `right` elements: after every
\* element it does not compare below (left and right count elements).
RECURSIVE InsertionPoint(_, _, _, _, _, _)
InsertionPoint(arr, pivot, left, right, sortField, sortOrder) ==
    IF left >= right THEN left
    ELSE LET mid == left + ((right - left) \div 2)
         IN  IF SortCompare(pivot, arr[mid + 1], sortField, sortOrder) < 0
             THEN InsertionPoint(arr, pivot, left, mid, sortField, sortOrder)
             ELSE InsertionPoint(arr, pivot, mid + 1, right, sortField, sortOrder)

\* Binary insertion of the elements from position start + 1 on into the
\* sorted first `start` elements.
\* The element at position start + 1 moved to position left + 1.
MoveTo(arr, start, left) ==
    SubSeq(arr, 1, left) \o <<arr[start + 1]>> \o SubSeq(arr, left + 1, start)
    \o SubSeq(arr, start + 2, Len(arr))

RECURSIVE BinaryInsertionSort(_, _, _, _)
BinaryInsertionSort(arr, start, sortField, sortOrder) ==
    IF start >= Len(arr) THEN arr
    ELSE BinaryInsertionSort(
            MoveTo(arr, start,
                   InsertionPoint(arr, arr[start + 1], 0, start, sortField, sortOrder)),
            start + 1, sortField, sortOrder)

\* Array.prototype.sort with the comparator, on an array shorter than the
\* engine's merge threshold: the leading run is found (and reversed when it
\* strictly descends), the rest is inserted by binary insertion.  The value
\* is the array after the call: sort works in place.
SortAfterRun(arr, desc, run, sortField, sortOrder) ==
    BinaryInsertionSort(
        IF desc THEN Reverse(SubSeq(arr, 1, run)) \o SubSeq(arr, run + 1, Len(arr))
        ELSE arr,
        run, sortField, sortOrder)

SortFromRun(arr, desc, sortField, sortOrder) ==
    SortAfterRun(arr, desc, RunLength(arr, 3, desc, sortField, sortOrder),
                 sortField, sortOrder)

ArraySort(arr, sortField, sortOrder) ==
    IF Len(arr) < 2 THEN arr
    ELSE SortFromRun(arr, SortCompare(arr[2], arr[1], sortField, sortOrder) < 0,
                     sortField, sortOrder)

\* applySort that sorts ascending and reverses the result for 'desc'.
applySortReversing(data, sortField, sortOrder) ==
    IF sortField = "" THEN [data |-> data, result |-> data]
    ELSE [data |-> data,
          result |-> IF sortOrder = "desc" THEN Reverse(ArraySort(data, sortField, "asc"))
                     ELSE ArraySort(data, sortField, sortOrder)]

\* applySort that calls data.sort, without the copy.
applySortInPlace(data, sortField, sortOrder) ==
    IF sortField = "" THEN [data |-> data, result |-> data]
    ELSE [data |-> ArraySort(data, sortField, sortOrder),
          result |-> ArraySort(data, sortField, sortOrder)]

\* data: the argument array after the call; result: the array returned.
\* The sort runs on the copy [...data], so the argument keeps its order.
applySort(data, sortField, sortOrder) ==
    IF sortField = "" THEN [data |-> data, result |-> data]
    ELSE [data |-> data, result |-> ArraySort(data, sortField, sortOrder)]

(***************************************************************************)
(* paginate (server.js:80-88).                                             *)
(***************************************************************************)
\* Array.prototype.slice(start, end): a negative bound counts from the end.
slice(data, start, end) ==
    LET len == Len(data)
        k == IF start < 0 THEN (IF len + start < 0 THEN 0 ELSE len + start)
             ELSE (IF start > len THEN len ELSE start)
        final == IF end < 0 THEN (IF len + end < 0 THEN 0 ELSE len + end)
                 ELSE (IF end > len THEN len ELSE end)
    IN  SubSeq(data, k + 1, final)

\* paginate whose slice takes one element more.
paginateInclusiveEnd(data, page, limit) ==
    [data |-> slice(data, page * limit, page * limit + limit + 1),
     total |-> Len(data),
     hasMore |-> page * limit + limit < Len(data)]

\* paginate whose hasMore compares with <=.
paginateHasMoreAtEnd(data, page, limit) ==
    [data |-> slice(data, page * limit, page * limit + limit),
     total |-> Len(data),
     hasMore |-> page * limit + limit <= Len(data)]

paginate(data, page, limit) ==
    LET start == page * limit
        end == start + limit
    IN  [data |-> slice(data, start, end),
         total |-> Len(data),
         hasMore |-> end < Len(data)]

(***************************************************************************)
(* The GET /api/records handler (server.js:111-129).                       *)
(***************************************************************************)
DefaultLimit == 50

\* A query string.  An absent parameter is the empty string: both are falsy
\* to `||` and `!`, and parseInt finds no digit in either.  filters is the
\* array JSON.parse gives (absent: no condition).
EmptyQuery ==
    [page |-> <<>>, limit |-> <<>>, sortField |-> "", sortOrder |-> "",
     filters |-> <<>>, logic |-> ""]

EmptyResponse == [data |-> <<>>, total |-> 0, hasMore |-> FALSE]

\* v || dflt, for a number v: NaN and 0 are falsy.
OrElse(v, dflt) == IF v.nan \/ v.n = 0 THEN dflt ELSE v.n

\* parseInt(text) || dflt
IntOr(text, dflt) == OrElse(parseInt(text), dflt)

\* Lines 112-124: the decoded parameters and the three stages.  `employees`
\* is the array readData() returned as the stages leave it: applyFilters
\* hands that very array on when there is no condition.
Paginated(f, s, page, limit) ==
    [employees |-> IF f.same THEN s.data ELSE dataFile.employees,
     filtered |-> f.result,
     sorted |-> s.result,
     response |-> paginate(s.result, page, limit)]

Sorted(f, sortField, sortOrder, page, limit) ==
    Paginated(f, applySort(f.result, sortField, sortOrder), page, limit)

\* The handler with the page cut before the records are filtered and sorted.
HandlePaginateFirst(query) ==
    Sorted(applyFilters(paginate(dataFile.employees, IntOr(query.page, 0),
                                 IntOr(query.limit, DefaultLimit)).data,
                        query.filters,
                        IF query.logic = "" THEN "AND" ELSE query.logic),
           query.sortField,
           IF query.sortOrder = "" THEN "asc" ELSE query.sortOrder,
           0, DefaultLimit)

Handle(query) ==
    Sorted(applyFilters(dataFile.employees, query.filters,
                        IF query.logic = "" THEN "AND" ELSE query.logic),
           query.sortField,
           IF query.sortOrder = "" THEN "asc" ELSE query.sortOrder,
           IntOr(query.page, 0),
           IntOr(query.limit, DefaultLimit))

\* The handler's locals and response, h, become the state.
Served(query, h) ==
    /\ req' = query
    /\ employees' = h.employees
    /\ filtered' = h.filtered
    /\ sorted' = h.sorted
    /\ response' = h.response
    /\ pc' = "responded"

GetRecords(query) ==
    /\ pc = "listening"
    /\ Served(query, Handle(query))
    /\ UNCHANGED <<dataFile, pagerQuery, nextPage, acc, pagerDone>>
    /\ UNCHANGED <<presetVars, appVars>>

\* The handler has returned: its locals are gone, the server listens again.
Finish ==
    /\ pc = "responded"
    /\ pc' = "listening"
    /\ req' = EmptyQuery
    /\ employees' = <<>>
    /\ filtered' = <<>>
    /\ sorted' = <<>>
    /\ response' = EmptyResponse
    /\ UNCHANGED <<dataFile, pagerQuery, nextPage, acc, pagerDone>>
    /\ UNCHANGED <<presetVars, appVars>>

(***************************************************************************)
(* Paging through one query: the handler serves GET /api/records for page  *)
(* 0, 1, 2, ... of the same query, up to the first page whose hasMore is   *)
(* false.  acc, nextPage and pagerDone record what the server has sent.    *)
(***************************************************************************)
PageServed(query, h) ==
    /\ Served(query, h)
    /\ acc' = acc \o h.response.data
    /\ pagerDone' = ~h.response.hasMore

NextPageServed(query) == PageServed(query, Handle(query))

GetNextPage ==
    /\ ~pagerDone
    /\ nextPage <= MaxRecords
    /\ NextPageServed([pagerQuery EXCEPT !.page = NumberToString(nextPage)])
    /\ nextPage' = nextPage + 1
    /\ UNCHANGED <<dataFile, pagerQuery>>
    /\ UNCHANGED <<presetVars, appVars>>

(***************************************************************************)
(* Inputs.                                                                 *)
(***************************************************************************)
Pool ==
    { Employee(1, <<"B", "o", "b">>, 30),
      Employee(2, <<"A", "m", "y">>, 25),
      Employee(3, <<"A", "m", "y">>, 25),
      Employee(4, <<"a", "m", "y">>, 30) }

\* The employees of data.json: up to MaxRecords records with distinct ids.
Datasets ==
    { d \in UNION { [1..n -> Pool] : n \in 0..MaxRecords } :
        \A i, j \in 1..Len(d) : i /= j => d[i].id /= d[j].id }

Operators ==
    {"equals", "contains", ">", "<", ">=", "<=", "startsWith", "endsWith", "matches"}

\* Two fields of the records, a name no record has, and a name no record
\* has of its own but every object inherits.
FilterFields == {"firstName", "age", "nickname", "constructor"}

FilterValues ==
    { <<>>, <<"A", "M">>, <<"b">>, <<"b", "o", "b">>, <<"2", "5">>, <<"3">> }

Conditions == [field : FilterFields, operator : Operators, value : FilterValues]

Condition(field, operator, value) ==
    [field |-> field, operator |-> operator, value |-> value]

\* The conditions that filter sets of more than one condition are made of.
CombinedConditions ==
    { Condition("firstName", "startsWith", <<"A", "M">>),
      Condition("age", ">", <<"2", "5">>),
      Condition("age", "equals", <<"2", "5">>),
      Condition("firstName", "endsWith", <<"b">>),
      Condition("nickname", "contains", <<>>),
      Condition("constructor", "contains", <<>>) }

FilterSets(pool) == UNION { [1..n -> pool] : n \in 0..MaxFilters }

Logics == {"", "AND", "OR"}

FilterQueries ==
    { [EmptyQuery EXCEPT !.filters = fs, !.logic = l] :
        fs \in FilterSets(CombinedConditions) \cup { <<c>> : c \in Conditions },
        l \in Logics }

SortFields == {"", "firstName", "age", "id", "nickname", "constructor"}

SortOrders == {"", "asc", "desc"}

SortQueries ==
    { [EmptyQuery EXCEPT !.sortField = sf, !.sortOrder = so] :
        sf \in SortFields, so \in SortOrders }

PageInputs == { <<>> } \cup { NumberToString(i) : i \in (-MaxPage)..MaxPage }

LimitInputs == { <<>> } \cup { NumberToString(i) : i \in (-MaxLimit)..MaxLimit }

PageQueries ==
    { [EmptyQuery EXCEPT !.page = p, !.limit = l] :
        p \in PageInputs, l \in LimitInputs }

\* Queries that use the three stages together.
MixedConditions ==
    { Condition("firstName", "startsWith", <<"A", "M">>),
      Condition("age", ">", <<"2", "5">>) }

MixedQueries ==
    { [page |-> p, limit |-> l, sortField |-> sf, sortOrder |-> so,
       filters |-> fs, logic |-> lg] :
        p \in { <<>>, <<"1">>, <<"2">> }, l \in { <<"1">>, <<"2">> },
        sf \in {"", "firstName", "age"}, so \in {"asc", "desc"},
        fs \in FilterSets(MixedConditions), lg \in {"AND", "OR"} }

PagerQueries ==
    { [EmptyQuery EXCEPT !.limit = NumberToString(l), !.sortField = sf] :
        l \in 1..MaxLimit, sf \in {"", "age"} }

(***************************************************************************)
(* The component App (frontend/src/App.tsx) and its API client             *)
(* (frontend/src/api.ts).  ui is the component's state as the setters last *)
(* left it; view is the state the last render saw, which is what the       *)
(* closures made by that render (loadData, the handlers, the effects) read.*)
(* A setter changes ui and schedules a render; it never changes view.      *)
(***************************************************************************)

\* The page size loadData asks for.
FetchLimit == 50

\* How many records data.json holds beyond one page of FetchLimit.
ExtraRecords == 2

\* How many clicks and keystrokes the user makes, and how many scroll events
\* the table receives.
MaxChanges == 2

MaxScrolls == 2

\* The employees of a data.json that does not fit one page.
AppEmployees ==
    [ i \in 1..(FetchLimit + ExtraRecords) |->
        Employee(i,
                 << <<"B", "o", "b">>, <<"A", "m", "y">>, <<"a", "m", "y">> >>[(i % 3) + 1],
                 20 + (i % 7)) ]

\* A preset (types.ts); id 0 stands for activePresetId's null.
Preset(id, name, filters, logic, isDefault) ==
    [id |-> id, name |-> name, filters |-> filters, logic |-> logic,
     isDefault |-> isDefault]

\* useState's initial values.  filtersId tells the filters arrays apart, as
\* the dependency check of an effect does (Object.is): 0 is the initial
\* array, -id the array of the preset id that fetchPresets loaded, and n > 0
\* the array that the user's n-th click or keystroke made, or that came back
\* with the preset it saved.
InitialState ==
    [employees |-> <<>>, loading |-> FALSE, hasMore |-> TRUE, page |-> 0,
     totalRecords |-> 0, sortField |-> "", sortOrder |-> "",
     filters |-> <<>>, filtersId |-> 0, logic |-> "AND", presets |-> <<>>,
     activePresetId |-> 0, newPresetName |-> <<>>]

\* tableRef: useRef(null), and no element of the JSX takes it as its ref.
tableRefAttached == [current |-> "div"]

tableRef == [current |-> "null"]

\* What loadData and handleScroll read from the render that made them.
Closure(state) ==
    [loading |-> state.loading, hasMore |-> state.hasMore, page |-> state.page,
     sortField |-> state.sortField, sortOrder |-> state.sortOrder,
     filters |-> state.filters, logic |-> state.logic]

\* The dependencies of the reload effect and of useCallback(handleScroll).
ReloadDeps(state) ==
    <<state.filtersId, state.logic, state.sortField, state.sortOrder>>

ScrollDeps(state) == <<state.loading, state.hasMore, state.page>>

\* fetchRecords builds the query string: page and limit always, the others
\* when truthy, filters when not empty.
fetchRecords(page, limit, sortField, sortOrder, filters, logic) ==
    [page |-> NumberToString(page), limit |-> NumberToString(limit),
     sortField |-> sortField, sortOrder |-> sortOrder,
     filters |-> filters, logic |-> logic]

\* A fetchRecords call awaiting its response, with what loadData does with it.
Call(c, pageNum, reset) ==
    [pageNum |-> pageNum, reset |-> reset,
     query |-> fetchRecords(pageNum, FetchLimit, c.sortField, c.sortOrder,
                            c.filters, c.logic)]

\* loadData(pageNum, reset) of the render with closure c, up to its await;
\* state is the component's state when it is called.
loadData(state, c, pageNum, reset) ==
    IF c.loading
    THEN /\ ui' = state
         /\ UNCHANGED <<inflight, requested>>
    ELSE /\ ui' = [state EXCEPT !.loading = TRUE]
         /\ inflight' = Append(inflight, Call(c, pageNum, reset))
         /\ requested' = Append(requested, Call(c, pageNum, reset))

\* loadData after its await: the response's setters, and finally's.
Received(call, resp) ==
    [ui EXCEPT !.employees = IF call.reset THEN resp.data ELSE @ \o resp.data,
               !.hasMore = resp.hasMore,
               !.totalRecords = resp.total,
               !.page = call.pageNum,
               !.loading = FALSE]

Without(s, i) == SubSeq(s, 1, i - 1) \o SubSeq(s, i + 1, Len(s))

\* A response to one of the calls in flight arrives; responses may overtake
\* one another.
RecordsResponse ==
    \E i \in 1..Len(inflight) :
        /\ ui' = Received(inflight[i], Handle(inflight[i].query).response)
        /\ inflight' = Without(inflight, i)
        /\ dirty' = TRUE
        /\ UNCHANGED <<view, scrollView, requested, presetCalls, changes, scrolls,
                       effects>>
        /\ UNCHANGED <<dataFile, pc, req, employees, filtered, sorted, response,
                       pagerQuery, nextPage, acc, pagerDone, presetVars>>

\* A preset as the app holds it: the preset, and which array its filters are.
Listed(preset, filtersId) ==
    [id |-> preset.id, name |-> preset.name, filters |-> preset.filters,
     logic |-> preset.logic, isDefault |-> preset.isDefault,
     filtersId |-> filtersId]

\* The presets of a GET /api/presets response.
Loaded(answer) == [i \in 1..Len(answer) |-> Listed(answer[i], -answer[i].id)]

\* loadedPresets.find(p => p.isDefault): its index, 0 when there is none.
RECURSIVE FindDefault(_, _)
FindDefault(loaded, i) ==
    IF i > Len(loaded) THEN 0
    ELSE IF loaded[i].isDefault THEN i
    ELSE FindDefault(loaded, i + 1)

Applied(state, preset) ==
    [state EXCEPT !.filters = preset.filters, !.filtersId = preset.filtersId,
                  !.logic = preset.logic, !.activePresetId = preset.id]

PresetsLoaded(loaded, i) ==
    IF i = 0 THEN [ui EXCEPT !.presets = loaded]
    ELSE Applied([ui EXCEPT !.presets = loaded], loaded[i])

\* A preset request of the API client: what was asked, what the handler
\* that asked read from its render (presets, activePresetId), the number of
\* the click that made it, and the server's answer once it has handled it.
PresetCall(method, id, body, state, click) ==
    [method |-> method, id |-> id, body |-> body, presets |-> state.presets,
     activePresetId |-> state.activePresetId, click |-> click,
     served |-> FALSE, answer |-> <<>>]

NoBody == [name |-> <<>>, filters |-> <<>>, logic |-> "", isDefault |-> FALSE]

\* The response to a preset request arrives: the state after the await.
Answered(i, state) ==
    /\ presetCalls[i].served
    /\ presetCalls' = Without(presetCalls, i)
    /\ ui' = state
    /\ dirty' = TRUE
    /\ UNCHANGED <<view, scrollView, inflight, requested, changes, scrolls, effects>>
    /\ UNCHANGED <<dataFile, pc, req, employees, filtered, sorted, response,
                   pagerQuery, nextPage, acc, pagerDone, presetVars>>

\* loadPresets after its await: the presets arrive, the default one is applied.
PresetsResponse ==
    \E i \in 1..Len(presetCalls) :
        /\ presetCalls[i].method = "GET"
        /\ Answered(i, PresetsLoaded(Loaded(presetCalls[i].answer),
                                     FindDefault(presetCalls[i].answer, 1)))

\* No effect is waiting to run, and the render that is due comes from no click.
NoEffects == [pending |-> FALSE, deps |-> <<>>, discrete |-> FALSE]

\* The effects of the render that saw the state rendered, the render before
\* it having had the reload dependencies prevDeps: the reload effect when a
\* dependency differs, then the effect that makes the new handleScroll the
\* listener when useCallback made a new one.  The reload effect's setters
\* act on the state the component has when the effect runs.
Effects(rendered, prevDeps, renderDue) ==
    /\ scrollView' = IF ScrollDeps(rendered) /= ScrollDeps(scrollView)
                     THEN Closure(rendered) ELSE scrollView
    /\ IF ReloadDeps(rendered) /= prevDeps
       THEN /\ loadData([ui EXCEPT !.employees = <<>>, !.page = 0, !.hasMore = TRUE],
                        Closure(rendered), 0, TRUE)
            /\ dirty' = TRUE
       ELSE /\ dirty' = renderDue
            /\ UNCHANGED <<ui, inflight, requested>>
    /\ effects' = NoEffects

\* A render: App() runs on the state and hands its effects to useEffect.
\* React runs them within the same task when the render comes from a click
\* or a keystroke, and in a later task otherwise.  It runs the effects of a
\* render before it renders again.
Render ==
    /\ dirty
    /\ ~effects.pending
    /\ view' = ui
    /\ IF effects.discrete
       THEN Effects(ui, ReloadDeps(view), FALSE)
       ELSE /\ effects' = [pending |-> TRUE, deps |-> ReloadDeps(view),
                           discrete |-> FALSE]
            /\ dirty' = FALSE
            /\ UNCHANGED <<ui, scrollView, inflight, requested>>
    /\ UNCHANGED <<presetCalls, changes, scrolls>>
    /\ UNCHANGED <<dataFile, pc, req, employees, filtered, sorted, response,
                   pagerQuery, nextPage, acc, pagerDone, presetVars>>

\* The effects of the last render run, in a task of their own.
PassiveEffects ==
    /\ effects.pending
    /\ Effects(view, effects.deps, dirty)
    /\ UNCHANGED <<view, presetCalls, changes, scrolls>>
    /\ UNCHANGED <<dataFile, pc, req, employees, filtered, sorted, response,
                   pagerQuery, nextPage, acc, pagerDone, presetVars>>

\* handleSort(field), of the last render.
Sort(field) ==
    IF view.sortField = field
    THEN [ui EXCEPT !.sortOrder = IF view.sortOrder = "asc" THEN "desc"
                                  ELSE IF view.sortOrder = "desc" THEN ""
                                  ELSE "asc",
                    !.sortField = IF view.sortOrder = "desc" THEN "" ELSE @]
    ELSE [ui EXCEPT !.sortField = field, !.sortOrder = "asc"]

\* A click or keystroke whose handler sets state.  React runs the effects
\* that wait before it calls the handler.
Changed(state) ==
    /\ changes < MaxChanges
    /\ ~effects.pending
    /\ changes' = changes + 1
    /\ ui' = state
    /\ dirty' = TRUE
    /\ effects' = [effects EXCEPT !.discrete = TRUE]
    /\ UNCHANGED <<view, scrollView, inflight, requested, presetCalls, scrolls>>
    /\ UNCHANGED <<dataFile, pc, req, employees, filtered, sorted, response,
                   pagerQuery, nextPage, acc, pagerDone, presetVars>>

\* A click or keystroke whose handler sends a preset request and awaits it.
Asked(call) ==
    /\ changes < MaxChanges
    /\ ~effects.pending
    /\ changes' = changes + 1
    /\ presetCalls' = Append(presetCalls, call)
    /\ UNCHANGED <<ui, view, scrollView, dirty, inflight, requested, scrolls,
                   effects>>
    /\ UNCHANGED <<dataFile, pc, req, employees, filtered, sorted, response,
                   pagerQuery, nextPage, acc, pagerDone, presetVars>>

\* A click on a column header.
handleSort == \E field \in {"age"} : Changed(Sort(field))

\* A click on Add Filter.
addFilter ==
    Changed([ui EXCEPT !.filters = Append(view.filters,
                                          Condition("firstName", "contains", <<>>)),
                       !.filtersId = changes + 1])

\* updateFilter(index, field, value): the user picks a field or an operator
\* in a filter's selects, or types into its value input.
updateFilter ==
    \E index \in 1..Len(view.filters),
       edit \in { <<"field", "age">>, <<"operator", ">">>, <<"value", <<"a">> >> } :
        /\ view.filters[index][edit[1]] /= edit[2]
        /\ Changed([ui EXCEPT !.filters = [view.filters EXCEPT
                                              ![index][edit[1]] = edit[2]],
                              !.filtersId = changes + 1])

\* removeFilter(index): a click on a filter's Remove.
removeFilter ==
    \E index \in 1..Len(view.filters) :
        Changed([ui EXCEPT !.filters = Without(view.filters, index),
                           !.filtersId = changes + 1])

\* A change of the logic select, shown while there are filters.
setLogic ==
    \E value \in {"AND", "OR"} :
        /\ view.filters /= <<>>
        /\ value /= view.logic
        /\ Changed([ui EXCEPT !.logic = value])

\* The user types a name, or a space, into the preset name input.
setNewPresetName ==
    \E name \in { <<"M", "e">>, <<" ">> } :
        /\ name /= view.newPresetName
        /\ Changed([ui EXCEPT !.newPresetName = name])

\* String.prototype.trim, for the space.
RECURSIVE trimStart(_)
trimStart(text) ==
    IF text /= <<>> /\ text[1] = " " THEN trimStart(Tail(text)) ELSE text

trim(text) == Reverse(trimStart(Reverse(trimStart(text))))

\* A click on Save Current Filters as Preset, up to the await.
saveNewPreset ==
    /\ ~(trim(view.newPresetName) = <<>> \/ Len(view.filters) = 0)
    /\ Asked(PresetCall("POST", 0,
                        [name |-> view.newPresetName, filters |-> view.filters,
                         logic |-> view.logic, isDefault |-> FALSE],
                        view, changes + 1))

\* A click on a preset's Set Default, enabled unless it is the default.
handleSetDefault ==
    \E i \in 1..Len(view.presets) :
        /\ ~view.presets[i].isDefault
        /\ Asked(PresetCall("PUT", view.presets[i].id, NoBody, view, changes + 1))

\* A click on a preset's Delete.
handleDeletePreset ==
    \E i \in 1..Len(view.presets) :
        Asked(PresetCall("DELETE", view.presets[i].id, NoBody, view, changes + 1))

\* A click on a preset's name.
loadPreset ==
    \E i \in 1..Len(view.presets) : Changed(Applied(ui, view.presets[i]))

\* A click on Clear All Filters: a new empty array.
clearFilters ==
    Changed([ui EXCEPT !.filters = <<>>, !.filtersId = changes + 1,
                       !.activePresetId = 0])

\* A scroll event at the table, once it has rows to scroll.  handleScroll is
\* the listener only if the effect found tableRef.current set.
handleScroll ==
    /\ scrolls < MaxScrolls
    /\ scrolls' = scrolls + 1
    /\ view.employees /= <<>>
    /\ IF tableRef.current = "null" \/ scrollView.loading \/ ~scrollView.hasMore
       THEN UNCHANGED <<ui, inflight, requested, dirty>>
       ELSE /\ loadData(ui, scrollView, scrollView.page + 1, FALSE)
            /\ dirty' = TRUE
    /\ UNCHANGED <<view, scrollView, presetCalls, changes, effects>>
    /\ UNCHANGED <<dataFile, pc, req, employees, filtered, sorted, response,
                   pagerQuery, nextPage, acc, pagerDone, presetVars>>

\* The app's variables while only the server is looked at.
IdleApp ==
    /\ ui = InitialState
    /\ view = InitialState
    /\ scrollView = Closure(InitialState)
    /\ dirty = FALSE
    /\ inflight = <<>>
    /\ requested = <<>>
    /\ presetCalls = <<>>
    /\ changes = 0
    /\ scrolls = 0
    /\ effects = NoEffects

(***************************************************************************)
(* The preset store (server.js:131-175): data.json's presets array, and    *)
(* the three requests of the API client that change it.  Each handler      *)
(* reads the file, changes the array and writes the file in one step of    *)
(* the event loop.                                                         *)
(***************************************************************************)

\* The store holds at most MaxPresets presets, with ids up to MaxPresetId.
MaxPresets == 3

MaxPresetId == 4

NoOp == [method |-> "", id |-> NaN]

RECURSIVE MaxOf(_)
MaxOf(ids) ==
    IF Len(ids) = 1 THEN ids[1]
    ELSE IF ids[1] > MaxOf(Tail(ids)) THEN ids[1] ELSE MaxOf(Tail(ids))

\* data.presets.map(p => p.id)
Ids(ps) == [i \in 1..Len(ps) |-> ps[i].id]

\* The id POST gives the new preset.
NewId(ps) == IF Len(ps) > 0 THEN MaxOf(Ids(ps)) + 1 ELSE 1

\* p.id === id, for the number p.id and the parseInt result id.
StrictEquals(n, id) == ~id.nan /\ id.n = n

\* POST's change of the array: the body, given an id, is pushed.
push(ps, body) ==
    Append(ps, Preset(NewId(ps), body.name, body.filters, body.logic, body.isDefault))

\* PUT's change of the array.
mapDefaultKeepingOthers(ps, id) ==
    [i \in 1..Len(ps) |->
        [ps[i] EXCEPT !.isDefault = @ \/ StrictEquals(ps[i].id, id)]]

mapDefault(ps, id) ==
    [i \in 1..Len(ps) |-> [ps[i] EXCEPT !.isDefault = StrictEquals(ps[i].id, id)]]

\* DELETE's change of the array.
RECURSIVE filterOut(_, _)
filterOut(ps, id) ==
    IF ps = <<>> THEN <<>>
    ELSE IF StrictEquals(ps[1].id, id) THEN filterOut(Tail(ps), id)
    ELSE <<ps[1]>> \o filterOut(Tail(ps), id)

\* The bodies saveNewPreset posts: a name, the current filters and logic,
\* isDefault false.
PresetBodies ==
    { [name |-> <<"O", "l", "d">>,
       filters |-> <<Condition("age", ">", <<"2", "3">>)>>,
       logic |-> "AND", isDefault |-> FALSE],
      [name |-> <<"A", "m", "y">>,
       filters |-> <<Condition("firstName", "equals", <<"a", "m", "y">>),
                     Condition("age", "<", <<"2", "2">>)>>,
       logic |-> "OR", isDefault |-> FALSE] }

\* The third segment of the path of a PUT or DELETE: `${id}` of a number.
IdSegments == { NumberToString(id) : id \in 0..(MaxPresetId + 1) }

PresetServed(method, id, ps) ==
    /\ presets' = ps
    /\ presetOp' = [method |-> method, id |-> id]
    /\ UNCHANGED <<dataFile, pc, req, employees, filtered, sorted, response,
                   pagerQuery, nextPage, acc, pagerDone, appVars>>

PostPreset ==
    \E body \in PresetBodies :
        /\ Len(presets) < MaxPresets
        /\ NewId(presets) <= MaxPresetId
        /\ PresetServed("POST", NaN, push(presets, body))

PutDefault ==
    \E segment \in IdSegments :
        PresetServed("PUT", parseInt(segment), mapDefault(presets, parseInt(segment)))

DeletePreset ==
    \E segment \in IdSegments :
        PresetServed("DELETE", parseInt(segment), filterOut(presets, parseInt(segment)))

\* The stores the server may start from: distinct ids, at most one default.
StoredPresets ==
    { Preset(id, body.name, body.filters, body.logic, isDefault) :
        id \in 1..(MaxPresetId - 1), body \in PresetBodies, isDefault \in BOOLEAN }

PresetStores ==
    { ps \in UNION { [1..n -> StoredPresets] : n \in 0..2 } :
        /\ \A i, j \in 1..Len(ps) : i /= j => ps[i].id /= ps[j].id
        /\ \A i, j \in 1..Len(ps) :
              ps[i].isDefault /\ ps[j].isDefault => i = j }

\* The store while only GET /api/records is looked at.
IdlePresets ==
    /\ presets = <<>>
    /\ presetOp = NoOp

(***************************************************************************)
(* The app's preset requests: the server handles one (server.js:131-175),  *)
(* and later the response arrives and the handler goes on after its await  *)
(* (App.tsx:168-205).  Requests reach the server in any order.             *)
(***************************************************************************)
AppServed(i, method, id, ps, answer) ==
    /\ ~presetCalls[i].served
    /\ presetCalls[i].method = method
    /\ presets' = ps
    /\ presetOp' = [method |-> method, id |-> id]
    /\ presetCalls' = [presetCalls EXCEPT ![i].served = TRUE, ![i].answer = answer]
    /\ UNCHANGED <<ui, view, scrollView, dirty, inflight, requested, changes, scrolls,
                   effects>>
    /\ UNCHANGED <<dataFile, pc, req, employees, filtered, sorted, response,
                   pagerQuery, nextPage, acc, pagerDone>>

\* GET /api/presets.
ServeGet ==
    \E i \in 1..Len(presetCalls) : AppServed(i, "GET", NaN, presets, presets)

\* POST /api/presets: the response is the preset with its id.
ServePost ==
    \E i \in 1..Len(presetCalls) :
        AppServed(i, "POST", NaN, push(presets, presetCalls[i].body),
                  <<Preset(NewId(presets), presetCalls[i].body.name,
                           presetCalls[i].body.filters, presetCalls[i].body.logic,
                           presetCalls[i].body.isDefault)>>)

\* PUT /api/presets/${id}/default.
ServePut ==
    \E i \in 1..Len(presetCalls) :
        AppServed(i, "PUT", parseInt(NumberToString(presetCalls[i].id)),
                  mapDefault(presets, parseInt(NumberToString(presetCalls[i].id))),
                  <<>>)

\* DELETE /api/presets/${id}.
ServeDelete ==
    \E i \in 1..Len(presetCalls) :
        AppServed(i, "DELETE", parseInt(NumberToString(presetCalls[i].id)),
                  filterOut(presets, parseInt(NumberToString(presetCalls[i].id))),
                  <<>>)

\* saveNewPreset after its await.
Saved(call) ==
    [ui EXCEPT !.presets = Append(call.presets, Listed(call.answer[1], call.click)),
               !.newPresetName = <<>>,
               !.activePresetId = call.answer[1].id]

PresetSaved ==
    \E i \in 1..Len(presetCalls) :
        /\ presetCalls[i].method = "POST"
        /\ Answered(i, Saved(presetCalls[i]))

\* handleSetDefault after its await.
DefaultSet(call) ==
    [ui EXCEPT !.presets = [j \in 1..Len(call.presets) |->
                               [call.presets[j] EXCEPT
                                   !.isDefault = (call.presets[j].id = call.id)]]]

PresetDefaultSet ==
    \E i \in 1..Len(presetCalls) :
        /\ presetCalls[i].method = "PUT"
        /\ Answered(i, DefaultSet(presetCalls[i]))

\* handleDeletePreset after its await.
RECURSIVE Unlisted(_, _)
Unlisted(listed, id) ==
    IF listed = <<>> THEN <<>>
    ELSE IF listed[1].id = id THEN Unlisted(Tail(listed), id)
    ELSE <<listed[1]>> \o Unlisted(Tail(listed), id)

Deleted(call) ==
    [ui EXCEPT !.presets = Unlisted(call.presets, call.id),
               !.activePresetId = IF call.activePresetId = call.id THEN 0 ELSE @]

PresetDeleted ==
    \E i \in 1..Len(presetCalls) :
        /\ presetCalls[i].method = "DELETE"
        /\ Answered(i, Deleted(presetCalls[i]))

(***************************************************************************)
(* Specifications.  Spec serves queries that use the three stages          *)
(* together; SpecFilter, SpecSort and SpecPage serve queries that vary one *)
(* stage's parameters widely; SpecPager serves a query page by page.           *)
(***************************************************************************)
Init ==
    /\ dataFile \in { [employees |-> d] : d \in Datasets }
    /\ pc = "listening"
    /\ req = EmptyQuery
    /\ employees = <<>>
    /\ filtered = <<>>
    /\ sorted = <<>>
    /\ response = EmptyResponse
    /\ pagerQuery = EmptyQuery
    /\ nextPage = 0
    /\ acc = <<>>
    /\ pagerDone = FALSE
    /\ IdlePresets
    /\ IdleApp

GetMixed == \E query \in MixedQueries : GetRecords(query)

GetFiltered == \E query \in FilterQueries : GetRecords(query)

GetSorted == \E query \in SortQueries : GetRecords(query)

GetPage == \E query \in PageQueries : GetRecords(query)

Next == GetMixed \/ Finish

Spec == Init /\ [][Next]_vars

NextFilter == GetFiltered \/ Finish

SpecFilter == Init /\ [][NextFilter]_vars

\* SpecSort sorts files that may also hold a record whose age is a string
\* where the others' are numbers: JSON gives each record's field a type of
\* its own, and applySort takes the records as they are.
InitSort ==
    /\ dataFile \in
          { [employees |-> d] :
              d \in { d \in UNION { [1..n -> Pool \cup
                                       { [id |-> NumV(5),
                                          firstName |-> Str(<<"B", "o", "b">>),
                                          age |-> Str(<<"1", "0", "0">>)] }] :
                                    n \in 0..MaxRecords } :
                        \A i, j \in 1..Len(d) : i /= j => d[i].id /= d[j].id } }
    /\ pc = "listening"
    /\ req = EmptyQuery
    /\ employees = <<>>
    /\ filtered = <<>>
    /\ sorted = <<>>
    /\ response = EmptyResponse
    /\ pagerQuery = EmptyQuery
    /\ nextPage = 0
    /\ acc = <<>>
    /\ pagerDone = FALSE
    /\ IdlePresets
    /\ IdleApp

NextSort == GetSorted \/ Finish

SpecSort == InitSort /\ [][NextSort]_vars

NextPage == GetPage \/ Finish

SpecPage == Init /\ [][NextPage]_vars

InitPager ==
    /\ dataFile \in { [employees |-> d] : d \in Datasets }
    /\ pc = "listening"
    /\ req = EmptyQuery
    /\ employees = <<>>
    /\ filtered = <<>>
    /\ sorted = <<>>
    /\ response = EmptyResponse
    /\ pagerQuery \in PagerQueries
    /\ nextPage = 0
    /\ acc = <<>>
    /\ pagerDone = FALSE
    /\ IdlePresets
    /\ IdleApp

SpecPager == InitPager /\ [][GetNextPage]_vars

\* The server's variables while only the preset store or the app is looked at.
IdleRecords ==
    /\ pc = "listening"
    /\ req = EmptyQuery
    /\ employees = <<>>
    /\ filtered = <<>>
    /\ sorted = <<>>
    /\ response = EmptyResponse
    /\ pagerQuery = EmptyQuery
    /\ nextPage = 0
    /\ acc = <<>>
    /\ pagerDone = FALSE

\* SpecPresets: the preset requests, from any store.
InitPresets ==
    /\ dataFile = [employees |-> <<>>]
    /\ IdleRecords
    /\ presets \in PresetStores
    /\ presetOp = NoOp
    /\ IdleApp

NextPresets == PostPreset \/ PutDefault \/ DeletePreset

SpecPresets == InitPresets /\ [][NextPresets]_vars

\* The stores the app is mounted over: no preset, or one, default or not.
AppPresetStores ==
    { <<>> } \cup
    { <<Preset(1, body.name, body.filters, body.logic, isDefault)>> :
        body \in PresetBodies, isDefault \in BOOLEAN }

\* SpecApp: the app from the end of its mount.  The first render's effects
\* have run: fetchPresets is awaited, the reload effect has skipped its first
\* run, loadData(0, true) has set loading and awaits page 0, and state set
\* by the effects awaits a render.
InitApp ==
    /\ dataFile = [employees |-> AppEmployees]
    /\ IdleRecords
    /\ presets \in AppPresetStores
    /\ presetOp = NoOp
    /\ ui = [InitialState EXCEPT !.loading = TRUE]
    /\ view = InitialState
    /\ scrollView = Closure(InitialState)
    /\ dirty = TRUE
    /\ inflight = <<Call(Closure(InitialState), 0, TRUE)>>
    /\ requested = <<Call(Closure(InitialState), 0, TRUE)>>
    /\ presetCalls = <<PresetCall("GET", 0, NoBody, InitialState, 0)>>
    /\ changes = 0
    /\ scrolls = 0
    /\ effects = NoEffects

NextApp ==
    \/ Render
    \/ PassiveEffects
    \/ RecordsResponse
    \/ ServeGet
    \/ PresetsResponse
    \/ handleSort
    \/ addFilter
    \/ updateFilter
    \/ removeFilter
    \/ clearFilters
    \/ setLogic
    \/ loadPreset
    \/ setNewPresetName
    \/ saveNewPreset
    \/ ServePost
    \/ PresetSaved
    \/ handleSetDefault
    \/ ServePut
    \/ PresetDefaultSet
    \/ handleDeletePreset
    \/ ServeDelete
    \/ PresetDeleted
    \/ handleScroll

SpecApp == InitApp /\ [][NextApp]_vars


(***************************************************************************)
(* Properties.                                                             *)
(***************************************************************************)
\* The parameters the handler decoded from the request being served.
ReqPage == IntOr(req.page, 0)

ReqLimit == IntOr(req.limit, DefaultLimit)

ReqLogic == IF req.logic = "" THEN "AND" ELSE req.logic

ReqSortOrder == IF req.sortOrder = "" THEN "asc" ELSE req.sortOrder

\* Where a record stands in a sequence of records with distinct ids.
Position(seq, record) == CHOOSE i \in 1..Len(seq) : seq[i] = record

Occurs(seq, record) == \E i \in 1..Len(seq) : seq[i] = record

\* C1: paging from page 0 up to the first page whose hasMore is false and
\* concatenating the pages gives back the sequence that is paged through
\* (the filtered and sorted records), each record once and in order; and
\* the paging is never cut short before such a page is served.
C1_PaginationCoverage ==
    /\ pagerDone =>
          /\ acc = sorted
          /\ (pagerQuery.sortField = "" => acc = dataFile.employees)
    /\ ~pagerDone => nextPage < MaxRecords

\* The paging ended after two full pages: the length is a multiple of the size.
C1_Witness ==
    /\ pagerDone
    /\ nextPage = 2
    /\ Len(acc) = 2 * ReqLimit

\* The paging ended on an empty sequence.
C1_WitnessEmpty ==
    /\ pagerDone
    /\ dataFile.employees = <<>>

\* C2: whenever the window [page*limit, page*limit+limit) holds no index of
\* the sequence, for any page and limit the handler passes on (negative ones
\* too), the page is empty and hasMore is false.
C2_OutOfRangeIsEmpty ==
    (/\ pc = "responded"
     /\ ~\E i \in 0..(Len(sorted) - 1) :
            ReqPage * ReqLimit <= i /\ i < ReqPage * ReqLimit + ReqLimit)
    => (response.data = <<>> /\ response.hasMore = FALSE)

\* C3: for page >= 0 and limit > 0, total is the length of the sequence and
\* hasMore is true exactly when page*limit+limit < total, which is exactly
\* when some element lies after the window.
C3_HasMore ==
    (pc = "responded" /\ ReqPage >= 0 /\ ReqLimit > 0)
    => /\ response.total = Len(sorted)
       /\ response.hasMore <=> (ReqPage * ReqLimit + ReqLimit < response.total)
       /\ response.hasMore <=>
            \E i \in 0..(Len(sorted) - 1) : i >= ReqPage * ReqLimit + ReqLimit

\* A page that ends exactly at the end of a non-empty sequence.
C3_Witness ==
    /\ pc = "responded"
    /\ ReqPage >= 1
    /\ ReqLimit > 0
    /\ ReqPage * ReqLimit + ReqLimit = response.total
    /\ ~response.hasMore

\* C4: with at least one condition, a record is kept under AND exactly when
\* every condition is true of it, and under OR exactly when some condition
\* is true of it.
C4_Combinator ==
    (pc = "responded" /\ Len(req.filters) >= 1)
    => \A i \in 1..Len(dataFile.employees) :
          LET record == dataFile.employees[i]
          IN  /\ ReqLogic = "AND" =>
                    (Occurs(filtered, record) <=>
                        \A j \in 1..Len(req.filters) : EvalFilter(record, req.filters[j]))
              /\ ReqLogic = "OR" =>
                    (Occurs(filtered, record) <=>
                        \E j \in 1..Len(req.filters) : EvalFilter(record, req.filters[j]))

\* Two conditions under OR, and a record kept that one of them rejects.
C4_Witness ==
    /\ pc = "responded"
    /\ Len(req.filters) = 2
    /\ ReqLogic = "OR"
    /\ \E i \in 1..Len(filtered) :
          /\ EvalFilter(filtered[i], req.filters[1])
          /\ ~EvalFilter(filtered[i], req.filters[2])
    /\ Len(filtered) < Len(dataFile.employees)

\* C5: with no condition the records come back unchanged, same records in
\* the same order, under AND and under OR.
C5_EmptyFilterSet ==
    (pc = "responded" /\ Len(req.filters) = 0) => filtered = dataFile.employees

\* No condition, under OR, over a non-empty file.
C5_Witness ==
    /\ pc = "responded"
    /\ Len(req.filters) = 0
    /\ req.logic = "OR"
    /\ Len(filtered) >= 2

\* The value is absent: the record has no field of that name, or the field
\* is null or undefined.
Absent(record, field) ==
    \/ field \notin DOMAIN record
    \/ record[field].type \in {"null", "undefined"}

\* C6: a condition on a field whose value is absent from the record is
\* false, whatever the operator and the filter's value, so under AND the
\* record is not kept.
C6_AbsentFieldIsFalse ==
    pc = "responded"
    => \A i \in 1..Len(dataFile.employees), j \in 1..Len(req.filters) :
          Absent(dataFile.employees[i], req.filters[j].field)
          => /\ ~EvalFilter(dataFile.employees[i], req.filters[j])
             /\ ReqLogic = "AND" => ~Occurs(filtered, dataFile.employees[i])

\* C7 as claimed: two records whose sort-field values compare equal stand
\* in the sorted array in the order they had in the array that was sorted,
\* ascending and descending, whatever the records.
C7_SortStable ==
    (pc = "responded" /\ req.sortField /= "")
    => \A i, j \in 1..Len(sorted) :
          (/\ i < j
           /\ SortCompare(sorted[i], sorted[j], req.sortField, ReqSortOrder) = 0)
          => Position(filtered, sorted[i]) < Position(filtered, sorted[j])

\* The values of the field are of one type in all the records.
OneType(seq, field) ==
    \A i, j \in 1..Len(seq) : Get(seq[i], field).type = Get(seq[j], field).type

\* C7, amended: when the sort-field values of the records are all of one
\* type, two records whose values compare equal stand in the sorted array
\* in the order they had in the array that was sorted, ascending and
\* descending.
C7_SortStableOneType ==
    (pc = "responded" /\ req.sortField /= "" /\ OneType(filtered, req.sortField))
    => \A i, j \in 1..Len(sorted) :
          (/\ i < j
           /\ SortCompare(sorted[i], sorted[j], req.sortField, ReqSortOrder) = 0)
          => Position(filtered, sorted[i]) < Position(filtered, sorted[j])

\* A descending sort that moved records of one type and left two tied
\* records adjacent.
C7_Witness ==
    /\ pc = "responded"
    /\ req.sortField /= ""
    /\ OneType(filtered, req.sortField)
    /\ ReqSortOrder = "desc"
    /\ sorted /= filtered
    /\ \E i, j \in 1..Len(sorted) :
          /\ i < j
          /\ SortCompare(sorted[i], sorted[j], req.sortField, ReqSortOrder) = 0

\* The values of the field are pairwise distinct and all strings or all
\* numbers.
DistinctOfOneType(seq, field) ==
    /\ \A i, j \in 1..Len(seq) : i /= j => Get(seq[i], field) /= Get(seq[j], field)
    /\ \/ \A i \in 1..Len(seq) : Get(seq[i], field).type = "string"
       \/ \A i \in 1..Len(seq) : Get(seq[i], field).type = "number"

\* C8: when the values of the sort field are pairwise distinct and of one
\* type, the ascending sort reversed is the descending sort.
C8_SortRoundTrip ==
    (pc = "responded" /\ req.sortField /= ""
        /\ DistinctOfOneType(filtered, req.sortField))
    => /\ ReqSortOrder = "desc" =>
            sorted = Reverse(applySort(filtered, req.sortField, "asc").result)
       /\ ReqSortOrder = "asc" =>
            Reverse(sorted) = applySort(filtered, req.sortField, "desc").result

\* Three records with distinct names, sorted descending into another order.
C8_Witness ==
    /\ pc = "responded"
    /\ req.sortField = "firstName"
    /\ ReqSortOrder = "desc"
    /\ Len(filtered) >= 3
    /\ DistinctOfOneType(filtered, req.sortField)
    /\ sorted /= filtered

\* The records of the file that satisfy the filter set (all of them when
\* there is no condition), by their positions in the file.
Matching ==
    { i \in 1..Len(dataFile.employees) :
        \/ Len(req.filters) = 0
        \/ ReqLogic = "OR" /\ \E j \in 1..Len(req.filters) :
                EvalFilter(dataFile.employees[i], req.filters[j])
        \/ ReqLogic /= "OR" /\ \A j \in 1..Len(req.filters) :
                EvalFilter(dataFile.employees[i], req.filters[j]) }

\* Record k of the file comes before record i in the requested order.
ComesBefore(k, i) ==
    LET c == IF req.sortField = "" THEN 0
             ELSE SortCompare(dataFile.employees[k], dataFile.employees[i],
                              req.sortField, ReqSortOrder)
    IN  c < 0 \/ (c = 0 /\ k < i)

\* How many matching records come before record i.
Rank(i) == Cardinality({ k \in Matching : ComesBefore(k, i) })

\* C9: the stages run as filter, sort, paginate: total counts the records of
\* the file that satisfy the filter set, whatever the sort and the page, and
\* the page holds, in order, the matching records whose ranks in the
\* requested order fall in the window (page >= 0, limit > 0).
C9_StageOrder ==
    (pc = "responded" /\ ReqPage >= 0 /\ ReqLimit > 0)
    => /\ response.total = Cardinality(Matching)
       /\ \A i \in Matching :
             LET at == Rank(i) - ReqPage * ReqLimit
             IN  IF 0 <= at /\ at < ReqLimit
                 THEN /\ at < Len(response.data)
                      /\ response.data[at + 1] = dataFile.employees[i]
                 ELSE ~Occurs(response.data, dataFile.employees[i])
       /\ \A j \in 1..Len(response.data) :
             \E i \in Matching : response.data[j] = dataFile.employees[i]

\* A later page of a query that filtered a record out and sorted the rest
\* into another order.
C9_Witness ==
    /\ pc = "responded"
    /\ ReqPage >= 1
    /\ Len(response.data) >= 1
    /\ Len(filtered) < Len(dataFile.employees)
    /\ req.sortField /= ""
    /\ sorted /= filtered

\* C10: when the stages have run, the array the handler read holds the same
\* records in the same order as the file: the stages changed nothing but
\* their own results.
C10_InputUnchanged ==
    pc = "responded" => employees = dataFile.employees

\* No condition, so that applySort is handed the array that was read, and a
\* sort that puts the records in another order.
C10_Witness ==
    /\ pc = "responded"
    /\ Len(req.filters) = 0
    /\ req.sortField /= ""
    /\ sorted /= employees

\* Nothing is awaited and the last render shows the state.
Settled ==
    inflight = <<>> /\ presetCalls = <<>> /\ ~dirty /\ ~effects.pending

\* The call the reload effect makes for the query the state holds.
ReloadCall == Call(Closure(ui), 0, TRUE)

\* C11: whenever filters, logic, sortField or sortOrder change, also while an
\* earlier loadData is awaited, a page-0 request with the new parameters is
\* issued, and once every response has arrived the rows displayed are page 0
\* of the new query.
C11_ReloadNeverDropped ==
    Settled =>
        /\ \E i \in 1..Len(requested) : requested[i].query = ReloadCall.query
        /\ view.employees = Handle(ReloadCall.query).response.data

\* The query is the one the app was mounted with: the user changed nothing
\* and no default preset was applied.
ParamsUnchanged ==
    /\ changes = 0
    /\ ReloadDeps(ui) = ReloadDeps(InitialState)
    /\ ReloadDeps(view) = ReloadDeps(InitialState)

\* The response to the request for a page of the query the state holds.
PageOf(pageNum) == Handle(Call(Closure(ui), pageNum, FALSE).query).response

\* Pages 0..pageNum of that query, one after the other.
RECURSIVE PagesUpTo(_)
PagesUpTo(pageNum) ==
    IF pageNum < 0 THEN <<>>
    ELSE PagesUpTo(pageNum - 1) \o PageOf(pageNum).data

\* C12: with the query parameters unchanged, whatever the interleaving of
\* scroll events and responses, at most one loadData request is awaited, no
\* page is requested twice, no page is requested after a response with
\* hasMore false, and once nothing is awaited the list displayed is pages
\* 0..page, each once.
C12_ScrollPagesOnce ==
    ParamsUnchanged =>
        /\ Len(inflight) <= 1
        /\ \A i, j \in 1..Len(requested) :
              i /= j => requested[i].pageNum /= requested[j].pageNum
        /\ \A i \in 1..Len(requested) :
              requested[i].pageNum > 0 => PageOf(requested[i].pageNum - 1).hasMore
        /\ inflight = <<>> => ui.employees = PagesUpTo(ui.page)

\* Two scroll events have reached a table that shows a full first page of a
\* query with more pages.
C12_Witness ==
    /\ ParamsUnchanged
    /\ scrolls >= 2
    /\ inflight = <<>>
    /\ Len(view.employees) = FetchLimit
    /\ view.hasMore

Defaults(ps) == { i \in 1..Len(ps) : ps[i].isDefault }

\* C13: from a store with distinct ids and at most one default, after any
\* sequence of POST (isDefault false), PUT .../default and DELETE requests
\* the store holds at most one default preset and distinct ids; right after
\* a PUT .../:id/default the default presets are exactly those with that id:
\* that one preset when the id exists, none when it does not.
C13_OneDefaultDistinctIds ==
    /\ Cardinality(Defaults(presets)) <= 1
    /\ \A i, j \in 1..Len(presets) : i /= j => presets[i].id /= presets[j].id
    /\ presetOp.method = "PUT" =>
          /\ \A i \in 1..Len(presets) :
                presets[i].isDefault <=> StrictEquals(presets[i].id, presetOp.id)
          /\ (\E i \in 1..Len(presets) : StrictEquals(presets[i].id, presetOp.id))
                => Cardinality(Defaults(presets)) = 1

\* A PUT has made default the last of three presets, which a POST added
\* with the id after the highest.
C13_Witness ==
    /\ presetOp.method = "PUT"
    /\ Len(presets) = 3
    /\ presets[3].isDefault
    /\ presets[3].id > 3

====
